---- MODULE Spec2Model ----
(***************************************************************************)
(* A model of the time-decay consensus engine: vote authentication         *)
(* (src/src/verify.rs, src/src/vote.rs), the decay models                  *)
(* (src/src/decay.rs), the threshold escalator (src/src/threshold.rs),     *)
(* the weight engine, trust table and history analyzer, and the two        *)
(* drivers main (src/src/main.rs) and run_simulation                       *)
(* (src/src/simulation.rs).                                                *)
(*                                                                         *)
(* Numbers.  An f64 is modelled as a fixed-point integer counting units of *)
(* 1/Scale; products are rounded down (Mul).  Instants are integers        *)
(* counting ticks of 1/TicksPerSec second, so that the truncation done by  *)
(* chrono's Duration::num_seconds is visible.                              *)
(***************************************************************************)
EXTENDS Integers, Sequences, FiniteSets, TLC

VARIABLES
    clock,      \* the wall clock read by Utc::now(), in ticks
    \* ---- vote authentication (verify.rs, vote.rs)
    vote,       \* the SignedVote under test
    origin,     \* which signing operation produced vote.signature
    tamper,     \* the field changed after signing ("none" if unmodified)
    vres,       \* the last verify call: its result, age_secs and max_age_secs
    \* ---- decay models (decay.rs)
    dmodel,     \* the decay model object
    dw0,        \* original_weight
    dcur,       \* the last compute_weight call: elapsed_time and weight
    dprev,      \* the compute_weight call before that
    \* ---- threshold escalator (threshold.rs)
    esc,        \* the ThresholdEscalator object
    tstart,     \* the proposal's start instant
    tcall,      \* the last call on esc: its arguments and its result
    tcur,       \* the last threshold_with_profile evaluation of the proposal
    tprev,      \* the evaluation before that
    \* ---- the drivers (main.rs, simulation.rs)
    pc,         \* the statement main or run_simulation is at
    run_now,    \* let now = Utc::now() of main or run_simulation
    idx,        \* the loop index i of run_simulation
    pvote,      \* the vote being processed
    ptype,      \* proposal_type
    verdicts,   \* the value of each vote.verify(300) matched on, in order
    weight_engine,      \* WeightEngine: cache and history
    threshold_engine,   \* ThresholdEscalator
    decision,   \* the locals weight, current_threshold and passed
    history,    \* HistoryAnalyzer.records
    jumps,      \* how often the wall clock has moved during the run
    \* ---- weight engine (weight_engine.rs)
    eng,        \* the WeightEngine object: cache and history
    ecall,      \* the last call on eng: its arguments, its result, the engine
                \* before it, and the cache a clear_cache just before it wiped
    returned,   \* per voter_id, the weight calculate_weight returned first
                \* since the engine was new or cleared
    \* ---- voting window (window.rs)
    window,     \* the VotingWindow object of the proposal
    wcall,      \* the last call on window: its arguments, its result and the
                \* window before it
    \* ---- history analyzer (history.rs)
    analyzer,   \* the HistoryAnalyzer object: records
    hcall       \* the last call on analyzer and its result

authVars  == <<vote, origin, tamper, vres>>
decayVars == <<dmodel, dw0, dcur, dprev>>
thrVars   == <<esc, tstart, tcall, tcur, tprev>>
pipeVars  == <<pc, run_now, idx, pvote, ptype, verdicts, weight_engine,
               threshold_engine, decision, history, jumps>>
engVars   == <<eng, ecall, returned>>
winVars   == <<window, wcall>>
histVars  == <<analyzer, hcall>>
vars == <<clock, authVars, decayVars, thrVars, pipeVars, engVars, winVars,
          histVars>>

\* What the actions of one component leave alone.
notDecay == <<clock, authVars, thrVars, pipeVars, engVars, winVars, histVars>>
notAuth  == <<clock, decayVars, thrVars, pipeVars, engVars, winVars, histVars>>
notThr   == <<authVars, decayVars, pipeVars, engVars, winVars, histVars>>
notPipe  == <<authVars, decayVars, thrVars, engVars, winVars, histVars>>
notEng   == <<clock, authVars, decayVars, thrVars, pipeVars, winVars, histVars>>
notWin   == <<clock, authVars, decayVars, thrVars, pipeVars, engVars, histVars>>
notHist  == <<clock, authVars, decayVars, thrVars, pipeVars, engVars, winVars>>

----------------------------------------------------------------------------
(* Fixed-point arithmetic standing for f64.                                 *)

\* Units per 1.0.
Scale == 1000

\* x * y for two fixed-point numbers.
Mul(x, y) == (x * y) \div Scale

\* The f64 literal n/d.
Lit(n, d) == (n * Scale) \div d

Max(a, b) == IF a >= b THEN a ELSE b
Min(a, b) == IF a <= b THEN a ELSE b

\* Largest |x|, in whole units, for which e^x is summed; beyond it e^x
\* saturates (an f64 saturates at +inf and underflows to 0 likewise).
ExpRange == 6

RECURSIVE ExpSeries(_, _, _, _)
\* Sum of the Taylor series of e^y, y >= 0: term is y^(n-1)/(n-1)!.
ExpSeries(y, n, term, acc) ==
    IF term = 0
    THEN acc
    ELSE ExpSeries(y, n + 1, (term * y) \div (n * Scale), acc + term)

\* f64::exp on fixed-point numbers; e^(-y) is computed as 1 / e^y so that it
\* lies in [0, 1] and is monotone, as the libm function is.
Exp(x) ==
    LET y == Min(IF x >= 0 THEN x ELSE -x, ExpRange * Scale)
        pos == ExpSeries(y, 1, Scale, 0)
    IN  IF x >= 0
        THEN pos
        ELSE IF -x > ExpRange * Scale THEN 0 ELSE (Scale * Scale) \div pos

----------------------------------------------------------------------------
(* chrono: instants and durations, in ticks.                                *)

\* Ticks per second: the resolution of an instant.
TicksPerSec == 2

\* chrono::Duration::seconds
Seconds(n) == n * TicksPerSec

\* chrono::Duration::num_seconds: the whole seconds of a duration, truncated
\* toward zero (a duration of -5.5 s has -5 whole seconds).
NumSeconds(d) == IF d >= 0 THEN d \div TicksPerSec ELSE -((-d) \div TicksPerSec)

\* The calendar date, a separator and the time of day of an instant's whole
\* second, and its fraction when there is one (%.f prints nothing for zero).
CalendarSecond(t, sep) ==
    LET sec == t \div TicksPerSec
    IN  <<ToString(sec \div 86400), sep, ToString(sec % 86400)>>

\* A rendering to the whole second.
FractionDropped(t) == <<>>

Fraction(t) ==
    IF t % TicksPerSec = 0 THEN <<>> ELSE <<".", ToString(t % TicksPerSec)>>

\* impl Display for DateTime<Utc>: "2024-01-01 12:00:00.5 UTC"
Display(t) == CalendarSecond(t, " ") \o Fraction(t) \o <<" UTC">>

\* DateTime::to_rfc3339: "2024-01-01T12:00:00.5+00:00"
Rfc3339(t) == CalendarSecond(t, "T") \o Fraction(t) \o <<"+00:00">>

----------------------------------------------------------------------------
(* ed25519_dalek, idealised: signing is deterministic, and a signature      *)
(* verifies under a public key for a message exactly when it was made with  *)
(* the matching signing key over the same bytes.                            *)

SigningKeys == {"key1", "key2"}

\* SigningKey::verifying_key
VerifyingKey(signing_key) == [of |-> signing_key]

\* Signer::sign
Sign(signing_key, message) == [by |-> signing_key, over |-> message]

\* Verifier::verify(message, signature).is_ok()
Verifies(public_key, message, signature) ==
    /\ signature.by = public_key.of
    /\ signature.over = message

\* Signature::try_from([0u8; 64]): bytes no key has produced.
ZeroSignature == [by |-> "nobody", over |-> <<>>]

----------------------------------------------------------------------------
(* vote.rs, verify.rs                                                       *)

\* struct SignedVote
SignedVote(voter_id, proposal_id, timestamp, original_weight, decay_model, signature, public_key) ==
    [voter_id |-> voter_id, proposal_id |-> proposal_id, timestamp |-> timestamp,
     original_weight |-> original_weight, decay_model |-> decay_model,
     signature |-> signature, public_key |-> public_key]

\* format!("{}:{}:{}", voter_id, proposal_id, timestamp) in SignedVote::new
NewMessage(voter_id, proposal_id, timestamp) ==
    voter_id \o <<":">> \o proposal_id \o <<":">> \o Display(timestamp)

\* SignedVote::new
SignedVoteNew(voter_id, proposal_id, original_weight, timestamp, decay_model, signing_key) ==
    LET message == NewMessage(voter_id, proposal_id, timestamp)
        signature == Sign(signing_key, message)
        public_key == VerifyingKey(signing_key)
    IN  SignedVote(voter_id, proposal_id, timestamp, original_weight,
                   decay_model, signature, public_key)

\* format!("{}{}", voter_id, timestamp.to_rfc3339()) and its signing in sign_vote
SignVote(voter_id, signing_key, timestamp) ==
    LET message == voter_id \o Rfc3339(timestamp)
    IN  Sign(signing_key, message)

\* keypair.sign(format!("{}:{}:{}", voter, "proposal_sim", timestamp)) in
\* run_simulation
SimulationSign(voter, proposal_id, timestamp, keypair) ==
    Sign(keypair, voter \o <<":">> \o proposal_id \o <<":">> \o Display(timestamp))

\* format!("{}:{}:{}", self.voter_id, self.proposal_id, self.timestamp) in verify
VerifyMessage(self) ==
    self.voter_id \o <<":">> \o self.proposal_id \o <<":">> \o Display(self.timestamp)

\* A verify that also turns down a vote whose original_weight is not positive.
VerifyNeedsWeight(self, now, max_age_secs) ==
    LET message == VerifyMessage(self)
        age_secs == NumSeconds(now - self.timestamp)
    IN  IF age_secs < -5 THEN "TimestampInFuture"
        ELSE IF age_secs > max_age_secs THEN "TimestampExpired"
        ELSE IF /\ self.original_weight > 0
                /\ Verifies(self.public_key, message, self.signature) THEN "Ok"
        ELSE "InvalidSignature"

\* SignedVote::verify, with now the value Utc::now() returns inside it.
Verify(self, now, max_age_secs) ==
    LET message == VerifyMessage(self)
        age_secs == NumSeconds(now - self.timestamp)
    IN  IF age_secs < -5 THEN "TimestampInFuture"
        ELSE IF age_secs > max_age_secs THEN "TimestampExpired"
        ELSE IF Verifies(self.public_key, message, self.signature) THEN "Ok"
        ELSE "InvalidSignature"

----------------------------------------------------------------------------
(* decay.rs                                                                 *)

\* 0.1 * original_weight
Floor10(original_weight) == Mul(Lit(1, 10), original_weight)

LinearNoFloor(rate, original_weight, elapsed_time) ==
    original_weight - rate * elapsed_time

\* LinearDecay::compute_weight
LinearComputeWeight(rate, original_weight, elapsed_time) ==
    LET decayed == original_weight - rate * elapsed_time
    IN  Max(decayed, Floor10(original_weight))

\* ExponentialDecay::compute_weight
ExponentialComputeWeight(rate, original_weight, elapsed_time) ==
    LET decayed == Mul(original_weight, Exp(-(rate * elapsed_time)))
    IN  Max(decayed, Floor10(original_weight))

RECURSIVE SteppedLoopFlipped(_, _, _, _)
SteppedLoopFlipped(decay_steps, elapsed_time, i, multiplier) ==
    IF i > Len(decay_steps)
    THEN multiplier
    ELSE SteppedLoopFlipped(decay_steps, elapsed_time, i + 1,
            IF elapsed_time <= decay_steps[i][1]
            THEN decay_steps[i][2]
            ELSE multiplier)

RECURSIVE SteppedLoop(_, _, _, _)
\* The for loop of SteppedDecay::compute_weight from entry i on: every entry
\* whose threshold has been reached overwrites the multiplier.
SteppedLoop(decay_steps, elapsed_time, i, multiplier) ==
    IF i > Len(decay_steps)
    THEN multiplier
    ELSE SteppedLoop(decay_steps, elapsed_time, i + 1,
            IF elapsed_time >= decay_steps[i][1]
            THEN decay_steps[i][2]
            ELSE multiplier)

\* SteppedDecay::compute_weight
SteppedComputeWeight(decay_steps, original_weight, elapsed_time) ==
    LET multiplier == SteppedLoop(decay_steps, elapsed_time, 1, Scale)
    IN  Max(Mul(original_weight, multiplier), Floor10(original_weight))

\* DecayModel::compute_weight, dispatched on the implementing type.
ComputeWeight(model, original_weight, elapsed_time) ==
    CASE model.kind = "Linear" ->
            LinearComputeWeight(model.rate, original_weight, elapsed_time)
      [] model.kind = "Exponential" ->
            ExponentialComputeWeight(model.rate, original_weight, elapsed_time)
      [] model.kind = "Stepped" ->
            SteppedComputeWeight(model.decay_steps, original_weight, elapsed_time)

LinearDecay(rate)        == [kind |-> "Linear", rate |-> rate, decay_steps |-> <<>>]
ExponentialDecay(rate)   == [kind |-> "Exponential", rate |-> rate, decay_steps |-> <<>>]
SteppedDecay(decay_steps) == [kind |-> "Stepped", rate |-> 0, decay_steps |-> decay_steps]

----------------------------------------------------------------------------
(* threshold.rs                                                             *)

\* enum EscalationPattern
Linear(rate)         == [kind |-> "Linear", p1 |-> rate, p2 |-> 0]
Exponential(factor)  == [kind |-> "Exponential", p1 |-> factor, p2 |-> 0]
Sigmoid(k, midpoint) == [kind |-> "Sigmoid", p1 |-> k, p2 |-> midpoint]

\* struct ThresholdEscalator
ThresholdEscalator(base_threshold, ceiling, pattern, emergency_override, profile, total_votes, min_vote_count) ==
    [base_threshold |-> base_threshold, ceiling |-> ceiling, pattern |-> pattern,
     emergency_override |-> emergency_override, profile |-> profile,
     total_votes |-> total_votes, min_vote_count |-> min_vote_count]

PatternThresholdUncapped(self, elapsed_secs) ==
    CASE self.pattern.kind = "Linear" ->
            self.base_threshold + self.pattern.p1 * elapsed_secs
      [] self.pattern.kind = "Exponential" ->
            self.base_threshold + (Scale - Exp(-(self.pattern.p1 * elapsed_secs)))
      [] self.pattern.kind = "Sigmoid" ->
            self.base_threshold
                + Mul((Scale * Scale)
                        \div (Scale + Exp(Mul(-self.pattern.p1,
                                              elapsed_secs * Scale - self.pattern.p2))),
                      self.ceiling - self.base_threshold)

\* The match on self.pattern in current_threshold.
PatternThreshold(self, elapsed_secs) ==
    CASE self.pattern.kind = "Linear" ->
            LET increase == self.pattern.p1 * elapsed_secs
            IN  Min(self.base_threshold + increase, self.ceiling)
      [] self.pattern.kind = "Exponential" ->
            LET increase == Scale - Exp(-(self.pattern.p1 * elapsed_secs))
            IN  Min(self.base_threshold + increase, self.ceiling)
      [] self.pattern.kind = "Sigmoid" ->
            LET x == elapsed_secs * Scale
                e == Exp(Mul(-self.pattern.p1, x - self.pattern.p2))
                sigmoid == (Scale * Scale) \div (Scale + e)
                threshold_range == self.ceiling - self.base_threshold
            IN  self.base_threshold + Mul(sigmoid, threshold_range)

CurrentThresholdNoOverride(self, elapsed_secs) ==
    PatternThreshold(self, elapsed_secs)

\* ThresholdEscalator::current_threshold
CurrentThreshold(self, elapsed_secs) ==
    IF self.emergency_override
    THEN self.ceiling
    ELSE PatternThreshold(self, elapsed_secs)

\* ThresholdEscalator::for_proposal_type
ForProposalType(proposal_type) ==
    CASE proposal_type = "Normal" ->
            ThresholdEscalator(Lit(51, 100), Lit(9, 10), Linear(Lit(1, 100)),
                               FALSE, "Conservative", 0, 3)
      [] proposal_type = "Critical" ->
            ThresholdEscalator(Lit(75, 100), Lit(95, 100), Linear(Lit(2, 100)),
                               FALSE, "Aggressive", 0, 5)

\* No rescaling of the elapsed time, whatever the profile.
AdjustedSecsUnscaled(self, elapsed_secs) == elapsed_secs

\* The match on self.profile in threshold_with_profile.
AdjustedSecs(self, elapsed_secs) ==
    CASE self.profile = "Conservative" -> elapsed_secs
      [] self.profile = "Aggressive" -> elapsed_secs * 2
      [] self.profile = "Adaptive" ->
            IF self.total_votes < 3 THEN elapsed_secs * 3 ELSE elapsed_secs

ThresholdWithProfileBackwards(self, now, start) ==
    IF self.emergency_override
    THEN self.ceiling
    ELSE LET elapsed_secs == Max(NumSeconds(start - now), 0)
         IN  CurrentThreshold(self, AdjustedSecs(self, elapsed_secs))

\* ThresholdEscalator::threshold_with_profile
ThresholdWithProfile(self, now, start) ==
    IF self.emergency_override
    THEN self.ceiling
    ELSE LET elapsed_secs == Max(NumSeconds(now - start), 0)
             adjusted_secs == AdjustedSecs(self, elapsed_secs)
         IN  CurrentThreshold(self, adjusted_secs)

IsThresholdMetStrict(self, vote_weight, current_threshold) ==
    vote_weight > current_threshold /\ self.total_votes >= self.min_vote_count

\* ThresholdEscalator::is_threshold_met
IsThresholdMet(self, vote_weight, current_threshold) ==
    vote_weight >= current_threshold /\ self.total_votes >= self.min_vote_count

----------------------------------------------------------------------------
(* trust.rs, weight_engine.rs, history.rs                                   *)

\* TrustEngine::new: trusted_validators
TrustedValidators ==
    {<<<<"validator_001">>, Lit(12, 10)>>, <<<<"validator_002">>, Lit(11, 10)>>}

\* A table without entries.
GetBonusNeutral(validator_id) == Scale

\* TrustEngine::get_bonus
GetBonus(validator_id) ==
    IF \E e \in TrustedValidators : e[1] = validator_id
    THEN (CHOOSE e \in TrustedValidators : e[1] = validator_id)[2]
    ELSE Scale

\* HashMap::new
EmptyMap == [k \in {} |-> 0]

\* HashMap::insert
Insert(map, key, value) ==
    [k \in DOMAIN map \cup {key} |-> IF k = key THEN value ELSE map[k]]

\* WeightEngine::new
WeightEngineNew == [cache |-> EmptyMap, history |-> <<>>]

\* The match on vote.decay_model in calculate_weight.
DecayedWeight(v, age) ==
    CASE v.decay_model = "Exponential" ->
            ComputeWeight(ExponentialDecay(Lit(5, 1000)), v.original_weight, age)
      [] v.decay_model = "Linear" ->
            ComputeWeight(LinearDecay(Lit(1, 1000)), v.original_weight, age)
      [] v.decay_model = "Stepped" ->
            ComputeWeight(SteppedDecay(<<<<60, Lit(8, 10)>>, <<180, Lit(5, 10)>>,
                                         <<300, Lit(2, 10)>>>>),
                          v.original_weight, age)

\* A calculate_weight that never looks into the cache.
CalculateWeightNoMemo(self, v, at, trust) ==
    LET age == NumSeconds(at - v.timestamp)
        decayed == DecayedWeight(v, age)
        weight == IF trust THEN Mul(decayed, GetBonus(v.voter_id)) ELSE decayed
    IN  [weight |-> weight,
         engine |-> [cache |-> Insert(self.cache, v.voter_id, weight),
                     history |-> Append(self.history,
                                   [vote_id |-> v.voter_id, weight |-> weight,
                                    timestamp |-> at])]]

\* A calculate_weight that writes its history entry at the front of the log.
CalculateWeightPrepend(self, v, at, trust) ==
    IF v.voter_id \in DOMAIN self.cache
    THEN [weight |-> self.cache[v.voter_id], engine |-> self]
    ELSE LET r == CalculateWeightNoMemo(self, v, at, trust)
         IN  [weight |-> r.weight,
              engine |-> [cache |-> r.engine.cache,
                          history |-> <<r.engine.history[Len(r.engine.history)]>>
                                        \o self.history]]

\* A calculate_weight that writes a history entry on a cache hit as well.
CalculateWeightLogsHits(self, v, at, trust) ==
    IF v.voter_id \in DOMAIN self.cache
    THEN [weight |-> self.cache[v.voter_id],
          engine |-> [cache |-> self.cache,
                      history |-> Append(self.history,
                                    [vote_id |-> v.voter_id,
                                     weight |-> self.cache[v.voter_id],
                                     timestamp |-> at])]]
    ELSE CalculateWeightNoMemo(self, v, at, trust)

\* WeightEngine::calculate_weight: the weight returned and the engine after
\* the call.  trust is TRUE for Some(&trust_engine), FALSE for None.
CalculateWeight(self, v, at, trust) ==
    IF v.voter_id \in DOMAIN self.cache
    THEN [weight |-> self.cache[v.voter_id], engine |-> self]
    ELSE LET age == NumSeconds(at - v.timestamp)
             decayed == DecayedWeight(v, age)
             weight == IF trust THEN Mul(decayed, GetBonus(v.voter_id))
                       ELSE decayed
         IN  [weight |-> weight,
              engine |-> [cache |-> Insert(self.cache, v.voter_id, weight),
                          history |-> Append(self.history,
                                        [vote_id |-> v.voter_id,
                                         weight |-> weight,
                                         timestamp |-> at])]]

\* HistoryAnalyzer::record_vote
RecordVote(records, record) == Append(records, record)

\* HistoryAnalyzer::default
HistoryAnalyzerDefault == [records |-> <<>>]

RECURSIVE TotalMargin(_, _, _)
\* self.records.iter().map(|r| r.weight - r.threshold).sum() from the i-th
\* record on, acc being the sum so far.
TotalMargin(records, i, acc) ==
    IF i > Len(records)
    THEN acc
    ELSE TotalMargin(records, i + 1,
                     acc + (records[i].weight - records[i].threshold))

\* HistoryAnalyzer::average_margin.  The quotient is rounded downward to the
\* grid, so that it has the sign of total_margin as the f64 quotient has.
AverageMargin(self) ==
    TotalMargin(self.records, 1, 0) \div Max(Len(self.records), 1)

\* A suggested_base_threshold that also raises on a margin of zero.
SuggestedBaseThresholdAtZero(self) ==
    LET avg_margin == AverageMargin(self)
    IN  IF avg_margin <= 0 THEN Lit(55, 100) ELSE Lit(50, 100)

\* HistoryAnalyzer::suggested_base_threshold
SuggestedBaseThreshold(self) ==
    LET avg_margin == AverageMargin(self)
    IN  IF avg_margin < 0 THEN Lit(55, 100) ELSE Lit(50, 100)

RECURSIVE BatchLoop(_, _, _, _, _, _)
\* votes.iter().map(|v| self.calculate_weight(v, now, trust)).collect() from
\* the i-th vote on: the weights collected and the engine after the last call.
BatchLoop(self, votes, at, trust, i, weights) ==
    IF i > Len(votes)
    THEN [weights |-> weights, engine |-> self]
    ELSE LET r == CalculateWeight(self, votes[i], at, trust)
         IN  BatchLoop(r.engine, votes, at, trust, i + 1,
                       Append(weights, r.weight))

\* WeightEngine::batch_calculate
BatchCalculate(self, votes, at, trust) ==
    BatchLoop(self, votes, at, trust, 1, <<>>)

\* A clear_cache that keeps the history log.
ClearCacheOnly(self) == [cache |-> EmptyMap, history |-> self.history]

\* WeightEngine::clear_cache
ClearCache(self) == [cache |-> EmptyMap, history |-> <<>>]

----------------------------------------------------------------------------
(* window.rs                                                                *)

\* Number of values of the unsigned type of duration_secs, grace_secs and
\* extra_secs (u64), scaled down: the values are 0 .. U64Range - 1.
U64Range == 16384

\* enum WindowType
Short        == [kind |-> "Short", secs |-> 0]
Medium       == [kind |-> "Medium", secs |-> 0]
Long         == [kind |-> "Long", secs |-> 0]
Custom(secs) == [kind |-> "Custom", secs |-> secs]

\* struct VotingWindow
VotingWindow(start_time, duration_secs, grace_secs) ==
    [start_time |-> start_time, duration_secs |-> duration_secs,
     grace_secs |-> grace_secs]

\* VotingWindow::new
VotingWindowNew(start_time, window_type, grace_secs) ==
    LET duration_secs ==
            CASE window_type.kind = "Short" -> 300
              [] window_type.kind = "Medium" -> 1800
              [] window_type.kind = "Long" -> 7200
              [] window_type.kind = "Custom" -> window_type.secs
    IN  VotingWindow(start_time, duration_secs, grace_secs)

\* VotingWindow::is_open
IsOpen(self, now) ==
    LET deadline == self.start_time
                        + Seconds(self.duration_secs + self.grace_secs)
    IN  now <= deadline

\* VotingWindow::time_left
TimeLeft(self, now) ==
    LET deadline == self.start_time + Seconds(self.duration_secs)
    IN  NumSeconds(deadline - now)

\* A should_extend that looks at the weight only.
ShouldExtendAnyTime(self, now, current_weight, current_threshold) ==
    current_weight >= Mul(Lit(9, 10), current_threshold)

\* VotingWindow::should_extend
ShouldExtend(self, now, current_weight, current_threshold) ==
    LET time_left == TimeLeft(self, now)
        close_enough == current_weight >= Mul(Lit(9, 10), current_threshold)
    IN  time_left <= 20 /\ close_enough

\* VotingWindow::extend: the outcomes of self.duration_secs += extra_secs.
\* When the sum does not fit the type, a build with overflow checks panics
\* and a build without them keeps the sum modulo the range of the type.
Extend(self, extra_secs) ==
    LET sum == self.duration_secs + extra_secs
    IN  IF sum < U64Range
        THEN {[panicked |-> FALSE,
               window |-> [self EXCEPT !.duration_secs = sum]]}
        ELSE {[panicked |-> TRUE, window |-> self],
              [panicked |-> FALSE,
               window |-> [self EXCEPT !.duration_secs = sum % U64Range]]}

----------------------------------------------------------------------------
(* The decay models under evaluation: a model object is built once, then    *)
(* compute_weight is called on it with varying elapsed times.               *)

\* Largest number of entries of a SteppedDecay step list that is enumerated.
MaxSteps == 2

\* rate values: the pipeline's (weight_engine.rs), the tests' (decay.rs), zero
\* and a negative one; the field is a plain f64 and nothing validates it.
LinearRates      == {Lit(-1, 1000), 0, Lit(1, 1000), Lit(2, 1)}
ExponentialRates == {Lit(-5, 1000), 0, Lit(5, 1000), Lit(1, 10)}

\* (threshold_time, multiplier) entries a step list is built from.
StepEntries ==
    {<<5, Lit(8, 10)>>, <<10, Lit(5, 10)>>, <<60, Lit(8, 10)>>,
     <<180, Lit(5, 10)>>, <<10, Lit(5, 100)>>, <<10, Lit(15, 10)>>}

StepLists ==
    UNION {[1..n -> StepEntries] : n \in 0..MaxSteps}
        \cup {<<<<60, Lit(8, 10)>>, <<180, Lit(5, 10)>>, <<300, Lit(2, 10)>>>>,
              <<<<5, Lit(8, 10)>>, <<10, Lit(5, 10)>>, <<20, Lit(2, 10)>>>>}

DecayModels ==
    {LinearDecay(r) : r \in LinearRates}
        \cup {ExponentialDecay(r) : r \in ExponentialRates}
        \cup {SteppedDecay(s) : s \in StepLists}

OriginalWeights == {-Scale, 0, Lit(1, 2), Scale, 10 * Scale}

ElapsedTimes == {0, 2, 5, 10, 15, 25, 60, 100, 180, 300, 600}

NoCall == [elapsed_time |-> -1, weight |-> 0]

DecayInit ==
    /\ dmodel \in DecayModels
    /\ dw0 \in OriginalWeights
    /\ dcur = NoCall
    /\ dprev = NoCall

DecayIdle ==
    /\ dmodel = LinearDecay(0)
    /\ dw0 = 0
    /\ dcur = NoCall
    /\ dprev = NoCall

\* One call model.compute_weight(original_weight, elapsed_time).
CallComputeWeight ==
    \E elapsed_time \in ElapsedTimes :
        /\ dprev' = dcur
        /\ dcur' = [elapsed_time |-> elapsed_time,
                    weight |-> ComputeWeight(dmodel, dw0, elapsed_time)]
        /\ UNCHANGED <<dmodel, dw0>>
        /\ UNCHANGED notDecay

\* A model whose parameters make it a decay: a rate that is not negative, step
\* multipliers that do not exceed 1.0.
IsDecaying(model) ==
    /\ model.rate >= 0
    /\ \A i \in 1..Len(model.decay_steps) : model.decay_steps[i][2] <= Scale

\* Step multipliers that never grow along the list.
StepsDescend(model) ==
    \A i \in 1..Len(model.decay_steps) : \A j \in i..Len(model.decay_steps) :
        model.decay_steps[j][2] <= model.decay_steps[i][2]

----------------------------------------------------------------------------
(* Votes being cast, changed and verified (the callers of verify.rs:        *)
(* main, run_simulation and the tests).                                     *)

\* Strings are sequences of characters; a word stands for its characters.
VoterIds    == {<<"alice">>, <<"bob">>, <<"alice", ":", "p">>}
ProposalIds == {<<"p">>, <<"q">>}

\* Last value of the wall clock, in ticks.
MaxClock == 2

\* timestamp - now at signing, in ticks: the offsets of the tests and the edges
\* of the tolerance windows, each also a tick earlier and later.
CastOffsets ==
    {Seconds(sec) + d : sec \in {-301, -300, -11, -10, -6, 0, 5, 6},
                        d \in {-1, 0, 1}}

\* max_age_secs arguments: those of main/run_simulation and of the tests.
MaxAges == {5, 10, 300}

NoVote == [voter_id |-> <<>>, proposal_id |-> <<>>, timestamp |-> 0,
           original_weight |-> 0, decay_model |-> "Linear",
           signature |-> ZeroSignature, public_key |-> VerifyingKey("nobody")]

NoVerify == [result |-> "none", now |-> 0, max_age_secs |-> 0]

AuthInit ==
    /\ vote = NoVote
    /\ origin = "none"
    /\ tamper = "none"
    /\ vres = NoVerify

\* A vote is built by SignedVote::new (main, the tests).
CastNew ==
    /\ vote = NoVote
    /\ \E voter_id \in VoterIds, proposal_id \in ProposalIds,
       off \in CastOffsets, signing_key \in SigningKeys :
        /\ vote' = SignedVoteNew(voter_id, proposal_id, Scale, clock + off,
                                 "Linear", signing_key)
        /\ origin' = "new"
        /\ tamper' = "none"
        /\ vres' = NoVerify
        /\ UNCHANGED notAuth

\* A vote is built as run_simulation builds it: a struct literal whose
\* signature is keypair.sign over the formatted fields.
CastSimulation ==
    /\ vote = NoVote
    /\ \E voter \in VoterIds, proposal_id \in ProposalIds,
       off \in CastOffsets, keypair \in SigningKeys :
        /\ vote' = SignedVote(voter, proposal_id, clock + off, Scale, "Linear",
                        SimulationSign(voter, proposal_id, clock + off, keypair),
                        VerifyingKey(keypair))
        /\ origin' = "simulation"
        /\ tamper' = "none"
        /\ vres' = NoVerify
        /\ UNCHANGED notAuth

\* A vote is built as a struct literal whose signature comes from sign_vote.
CastSignVote ==
    /\ vote = NoVote
    /\ \E voter_id \in VoterIds, proposal_id \in ProposalIds,
       off \in CastOffsets, signing_key \in SigningKeys :
        /\ vote' = SignedVote(voter_id, proposal_id, clock + off, Scale, "Linear",
                        SignVote(voter_id, signing_key, clock + off),
                        VerifyingKey(signing_key))
        /\ origin' = "sign_vote"
        /\ tamper' = "none"
        /\ vres' = NoVerify
        /\ UNCHANGED notAuth

\* The values a field of the vote may be changed to after signing (the fields
\* are pub): all differ from the field's value.
Changed(v, field) ==
    CASE field = "voter_id" -> VoterIds \ {v.voter_id}
      [] field = "proposal_id" -> ProposalIds \ {v.proposal_id}
      [] field = "timestamp" ->
            {v.timestamp + d : d \in {-Seconds(1), -1, 1, Seconds(1)}}
      [] field = "signature" ->
            {ZeroSignature,
             Sign(CHOOSE k \in SigningKeys : k # v.signature.by, v.signature.over),
             Sign(v.signature.by, v.signature.over \o <<"x">>)}
      [] field = "original_weight" -> {2 * v.original_weight}
      [] field = "decay_model" -> {"Exponential", "Stepped"}

Fields ==
    {"voter_id", "proposal_id", "timestamp", "signature", "original_weight",
     "decay_model"}

\* One field of the unmodified vote is overwritten.
Tamper ==
    /\ vote # NoVote
    /\ tamper = "none"
    /\ \E field \in Fields : \E x \in Changed(vote, field) :
        /\ vote' = [vote EXCEPT ![field] = x]
        /\ tamper' = field
    /\ vres' = NoVerify
    /\ UNCHANGED origin
    /\ UNCHANGED notAuth

\* vote.verify(max_age_secs)
CallVerify ==
    /\ vote # NoVote
    /\ \E max_age_secs \in MaxAges :
        vres' = [result |-> Verify(vote, clock, max_age_secs),
                 now |-> clock, max_age_secs |-> max_age_secs]
    /\ UNCHANGED <<vote, origin, tamper>>
    /\ UNCHANGED notAuth

AuthIdle == AuthInit

\* Time passes.
Tick ==
    /\ clock < MaxClock
    /\ clock' = clock + 1
    /\ UNCHANGED <<authVars, decayVars, thrVars, pipeVars, engVars, winVars,
                   histVars>>


----------------------------------------------------------------------------
(* Threshold escalators under evaluation (the callers of threshold.rs:      *)
(* main, run_simulation and the tests).                                     *)

\* Largest total_votes.
MaxVotes == 4

\* (base_threshold, ceiling): the presets', the tests', and a base above its
\* ceiling; the fields are plain pub f64 and nothing validates them.
BaseCeilings ==
    {<<Lit(51, 100), Lit(9, 10)>>, <<Lit(5, 10), Lit(9, 10)>>,
     <<Lit(9, 10), Lit(5, 10)>>}

Patterns ==
    {Linear(Lit(1, 100)), Linear(Lit(2, 100)), Linear(-Lit(1, 100)),
     Exponential(Lit(1, 100)), Exponential(-Lit(1, 100)),
     Sigmoid(Lit(1, 10), 30 * Scale), Sigmoid(-Lit(1, 10), 30 * Scale)}

Profiles == {"Conservative", "Aggressive", "Adaptive"}

MinVoteCounts == {1, 3}

Escalators(overrides, votes, min_counts) ==
    {ThresholdEscalator(bc[1], bc[2], pattern, emergency_override, profile,
                        total_votes, min_vote_count) :
        bc \in BaseCeilings, pattern \in Patterns,
        emergency_override \in overrides, profile \in Profiles,
        total_votes \in votes, min_vote_count \in min_counts}

\* A configuration whose threshold can only escalate: base_threshold does not
\* exceed ceiling and the pattern's rate, factor or k is not negative.
IsEscalating(self) ==
    /\ self.base_threshold <= self.ceiling
    /\ self.pattern.p1 >= 0

ElapsedSecs == {0, 1, 10, 30, 60, 100, 600}

\* Instants passed as now and start.
Instants ==
    {0, Seconds(1) - 1, Seconds(10), Seconds(30), Seconds(60) + 1, Seconds(600)}

\* vote_weight and current_threshold arguments of is_threshold_met.
MetWeights == {Lit(65, 100), Lit(7, 10), Lit(75, 100)}

NoCallT == [op |-> "none", a |-> 0, b |-> 0, threshold |-> 0, met |-> FALSE]
NoEval  == [now |-> -1, total_votes |-> 0, threshold |-> 0]

ThrInit(overrides, votes, min_counts, starts) ==
    /\ esc \in Escalators(overrides, votes, min_counts)
    /\ tstart \in starts
    /\ tcall = NoCallT
    /\ tcur = NoEval
    /\ tprev = NoEval

ThrIdle ==
    /\ esc = ForProposalType("Normal")
    /\ tstart = 0
    /\ tcall = NoCallT
    /\ tcur = NoEval
    /\ tprev = NoEval

\* esc.current_threshold(elapsed_secs)
CallCurrentThreshold ==
    /\ \E elapsed_secs \in ElapsedSecs :
        tcall' = [op |-> "current_threshold", a |-> elapsed_secs, b |-> 0,
                  threshold |-> CurrentThreshold(esc, elapsed_secs),
                  met |-> FALSE]
    /\ UNCHANGED <<esc, tstart, tcur, tprev, clock>>
    /\ UNCHANGED notThr

\* esc.threshold_with_profile(now, start)
CallThresholdWithProfile ==
    /\ \E now \in Instants, start \in Instants :
        tcall' = [op |-> "threshold_with_profile", a |-> now, b |-> start,
                  threshold |-> ThresholdWithProfile(esc, now, start),
                  met |-> FALSE]
    /\ UNCHANGED <<esc, tstart, tcur, tprev, clock>>
    /\ UNCHANGED notThr

\* esc.is_threshold_met(vote_weight, current_threshold)
CallIsThresholdMet ==
    /\ \E vote_weight \in MetWeights, current_threshold \in MetWeights :
        tcall' = [op |-> "is_threshold_met", a |-> vote_weight,
                  b |-> current_threshold, threshold |-> 0,
                  met |-> IsThresholdMet(esc, vote_weight, current_threshold)]
    /\ UNCHANGED <<esc, tstart, tcur, tprev, clock>>
    /\ UNCHANGED notThr

\* ---- one proposal over time

\* The wall clock moves on to a later instant.
Advance ==
    /\ \E t \in Instants : t > clock /\ clock' = t
    /\ UNCHANGED thrVars
    /\ UNCHANGED notThr

\* A vote arrives: the caller raises total_votes.
VoteArrives ==
    /\ esc.total_votes < MaxVotes
    /\ esc' = [esc EXCEPT !.total_votes = @ + 1]
    /\ UNCHANGED <<tstart, tcall, tcur, tprev, clock>>
    /\ UNCHANGED notThr

\* The proposal's threshold is evaluated now.
Evaluate ==
    /\ tprev' = tcur
    /\ tcur' = [now |-> clock, total_votes |-> esc.total_votes,
                threshold |-> ThresholdWithProfile(esc, clock, tstart)]
    /\ UNCHANGED <<esc, tstart, tcall, clock>>
    /\ UNCHANGED notThr

----------------------------------------------------------------------------
(* A weight engine in use: calculate_weight, batch_calculate and clear_cache *)
(* called on one WeightEngine object in any order (the callers of           *)
(* weight_engine.rs: main, run_simulation and the tests).                   *)

\* Most votes in one batch_calculate call.
MaxBatch == 2

\* A vote as handed to the engine, which reads neither the signature nor the
\* public key.
EngineVote(voter_id, proposal_id, secs, original_weight, decay_model) ==
    SignedVote(voter_id, proposal_id, Seconds(secs), original_weight,
               decay_model, ZeroSignature, VerifyingKey("key1"))

\* Votes as the tests build them (validator_001, cast 120 s before now, of
\* several decay kinds), and votes of other voters, proposals, weights and
\* timestamps, one of them with a timestamp later than every now.
BatchVotes ==
    {EngineVote(<<"validator_001">>, <<"p">>, -120, Scale, "Linear"),
     EngineVote(<<"validator_001">>, <<"p">>, -120, Scale, "Exponential"),
     EngineVote(<<"alice">>, <<"q">>, 0, 2 * Scale, "Exponential")}

EngineVotes ==
    BatchVotes
        \cup {EngineVote(<<"alice">>, <<"p">>, 100, Scale, "Linear"),
              EngineVote(<<"VALIDATOR_001">>, <<"p">>, -200, Scale, "Stepped")}

Batches == UNION {[1..n -> BatchVotes] : n \in 0..MaxBatch}

\* The now argument of calculate_weight and of batch_calculate.
EngineNows == {0, Seconds(60) + 1}
BatchNows  == {Seconds(60) + 1}

NoCallE == [op |-> "none", votes |-> <<>>, now |-> 0, trust |-> FALSE,
            weights |-> <<>>, before |-> WeightEngineNew,
            after_clear |-> FALSE, wiped |-> EmptyMap]

EngineInit ==
    /\ eng = WeightEngineNew
    /\ ecall = NoCallE
    /\ returned = EmptyMap

EngineIdle == EngineInit

RECURSIVE FirstReturned(_, _, _, _)
\* returned after the calls for votes[i..] returned weights[i..].
FirstReturned(map, votes, weights, i) ==
    IF i > Len(votes)
    THEN map
    ELSE FirstReturned(IF votes[i].voter_id \in DOMAIN map
                       THEN map
                       ELSE Insert(map, votes[i].voter_id, weights[i]),
                       votes, weights, i + 1)

\* engine.calculate_weight(&vote, now, trust)
CallCalculateWeight ==
    /\ \E v \in EngineVotes, now \in EngineNows, trust \in BOOLEAN :
        LET r == CalculateWeight(eng, v, now, trust)
        IN  /\ eng' = r.engine
            /\ ecall' = [op |-> "calculate_weight", votes |-> <<v>>,
                         now |-> now, trust |-> trust,
                         weights |-> <<r.weight>>, before |-> eng,
                         after_clear |-> ecall.op = "clear_cache",
                         wiped |-> IF ecall.op = "clear_cache"
                                   THEN ecall.before.cache ELSE EmptyMap]
            /\ returned' = FirstReturned(returned, <<v>>, <<r.weight>>, 1)
    /\ UNCHANGED notEng

\* engine.batch_calculate(&votes, now, trust)
CallBatchCalculate ==
    /\ \E votes \in Batches, now \in BatchNows, trust \in {FALSE} :
        LET r == BatchCalculate(eng, votes, now, trust)
        IN  /\ eng' = r.engine
            /\ ecall' = [op |-> "batch_calculate", votes |-> votes,
                         now |-> now, trust |-> trust,
                         weights |-> r.weights, before |-> eng,
                         after_clear |-> ecall.op = "clear_cache",
                         wiped |-> IF ecall.op = "clear_cache"
                                   THEN ecall.before.cache ELSE EmptyMap]
            /\ returned' = FirstReturned(returned, votes, r.weights, 1)
    /\ UNCHANGED notEng

\* engine.clear_cache()
CallClearCache ==
    /\ eng' = ClearCache(eng)
    /\ ecall' = [NoCallE EXCEPT !.op = "clear_cache", !.before = eng]
    /\ returned' = EmptyMap
    /\ UNCHANGED notEng

----------------------------------------------------------------------------
(* A voting window in use: is_open, time_left, should_extend and extend     *)
(* called on one VotingWindow object in any order (the tests of window.rs). *)

\* Most extend calls on one window.
MaxExtends == 2

\* window_type and grace_secs arguments of VotingWindow::new.
WindowTypes == {Short, Medium, Custom(42), Custom(U64Range - 100)}
GraceSecs   == {0, 10}

\* now arguments: the start, instants around 20 s before the deadline of a
\* Short window, around its deadline and around the end of its grace period.
WindowNows ==
    {0, Seconds(150), Seconds(279), Seconds(280) - 1, Seconds(280),
     Seconds(280) + 1, Seconds(285), Seconds(300) + 1, Seconds(310),
     Seconds(310) + 1, Seconds(400)}

\* current_weight and current_threshold arguments of should_extend.
ExtendWeights    == {80 * Scale, 90 * Scale, 95 * Scale, Lit(7, 10)}
ExtendThresholds == {100 * Scale, Lit(7, 10)}

\* extra_secs arguments of extend: none, the tests' 60, and the largest value
\* of the type.
ExtraSecs == {0, 60, U64Range - 1}

NoCallW == [op |-> "none", now |-> 0, current_weight |-> 0,
            current_threshold |-> 0, extra_secs |-> 0, flag |-> FALSE,
            secs |-> 0, panicked |-> FALSE, extends |-> 0]

\* A new window, no call made on it yet.
WindowInit ==
    /\ \E window_type \in WindowTypes, grace_secs \in GraceSecs :
            window = VotingWindowNew(0, window_type, grace_secs)
    /\ wcall = [call |-> NoCallW, before |-> window]

WindowIdle ==
    /\ window = VotingWindowNew(0, Short, 10)
    /\ wcall = [call |-> NoCallW, before |-> window]

\* window.is_open(now)
CallIsOpen ==
    /\ ~wcall.call.panicked
    /\ \E now \in WindowNows :
        wcall' = [call |-> [NoCallW EXCEPT !.op = "is_open", !.now = now,
                                !.flag = IsOpen(window, now),
                                !.extends = wcall.call.extends],
                  before |-> window]
    /\ UNCHANGED window
    /\ UNCHANGED notWin

\* window.time_left(now)
CallTimeLeft ==
    /\ ~wcall.call.panicked
    /\ \E now \in WindowNows :
        wcall' = [call |-> [NoCallW EXCEPT !.op = "time_left", !.now = now,
                                !.secs = TimeLeft(window, now),
                                !.extends = wcall.call.extends],
                  before |-> window]
    /\ UNCHANGED window
    /\ UNCHANGED notWin

\* window.should_extend(now, current_weight, current_threshold)
CallShouldExtend ==
    /\ ~wcall.call.panicked
    /\ \E now \in WindowNows, current_weight \in ExtendWeights,
          current_threshold \in ExtendThresholds :
        wcall' = [call |-> [NoCallW EXCEPT !.op = "should_extend",
                                !.now = now,
                                !.current_weight = current_weight,
                                !.current_threshold = current_threshold,
                                !.flag = ShouldExtend(window, now,
                                            current_weight, current_threshold),
                                !.extends = wcall.call.extends],
                  before |-> window]
    /\ UNCHANGED window
    /\ UNCHANGED notWin

\* window.extend(extra_secs); a panic ends the use of the window.
CallExtend ==
    /\ ~wcall.call.panicked
    /\ wcall.call.extends < MaxExtends
    /\ \E extra_secs \in ExtraSecs : \E outcome \in Extend(window, extra_secs) :
        /\ window' = outcome.window
        /\ wcall' = [call |-> [NoCallW EXCEPT !.op = "extend",
                                    !.extra_secs = extra_secs,
                                    !.panicked = outcome.panicked,
                                    !.extends = wcall.call.extends + 1],
                     before |-> window]
    /\ UNCHANGED notWin

----------------------------------------------------------------------------
(* A history analyzer under test (the callers of history.rs: main,          *)
(* run_simulation and the tests).                                           *)

\* Largest number of records.
MaxRecords == 3

\* The records passed to record_vote: sample_vote(vote_id, weight, threshold,
\* passed) of the tests, weights and thresholds around the 0.5 of the tests.
RecordWeights    == {Lit(3, 10), Lit(4, 10), Lit(6, 10), Lit(7, 10)}
RecordThresholds == {Lit(5, 10), Lit(6, 10)}

VoteRecords ==
    {[vote_id |-> "v1", weight |-> w, threshold |-> t, passed |-> w >= t,
      timestamp |-> 0] : w \in RecordWeights, t \in RecordThresholds}

NoCallH == [op |-> "none", result |-> 0]

HistoryInit ==
    /\ analyzer = HistoryAnalyzerDefault
    /\ hcall = NoCallH

HistoryIdle == HistoryInit

\* analyzer.record_vote(record)
CallRecordVote ==
    /\ Len(analyzer.records) < MaxRecords
    /\ \E record \in VoteRecords :
            analyzer' = [records |-> RecordVote(analyzer.records, record)]
    /\ hcall' = [op |-> "record_vote", result |-> 0]
    /\ UNCHANGED notHist

\* analyzer.average_margin()
CallAverageMargin ==
    /\ hcall' = [op |-> "average_margin", result |-> AverageMargin(analyzer)]
    /\ UNCHANGED <<analyzer, notHist>>

\* analyzer.suggested_base_threshold()
CallSuggestedBaseThreshold ==
    /\ hcall' = [op |-> "suggested_base_threshold",
                 result |-> SuggestedBaseThreshold(analyzer)]
    /\ UNCHANGED <<analyzer, notHist>>

----------------------------------------------------------------------------
(* main.rs and simulation.rs: one run of the program.                       *)

\* Most moves of the wall clock during one run.
MaxJumps == 2

\* How the wall clock moves between two statements: on by a tick, on by 200 s
\* (the process was suspended), back by 10 s (the clock was set).
ClockSteps == {1, Seconds(200), -Seconds(10)}

\* What the user may type in main.
InputVoterIds == {<<"alice">>, <<"validator_001">>}
InputWeights  == {-Scale, Scale, 2 * Scale}
DecayTypes    == {"Linear", "Exponential", "Stepped"}
ProposalTypes == {"Normal", "Critical"}

\* let voters / let decay_models in run_simulation
SimVoters == <<<<"alice">>, <<"bob">>, <<"carol">>, <<"dave">>, <<"eve">>>>
SimDecayModels == <<"Linear", "Exponential", "Stepped">>

NoDecision == [weight |-> 0, current_threshold |-> 0, passed |-> FALSE]

PipeInit ==
    /\ pc = "start"
    /\ run_now = 0
    /\ idx = 0
    /\ pvote = NoVote
    /\ ptype = "Normal"
    /\ verdicts = <<>>
    /\ weight_engine = WeightEngineNew
    /\ threshold_engine = ForProposalType("Normal")
    /\ decision = NoDecision
    /\ history = <<>>
    /\ jumps = 0

PipeIdle == PipeInit

VerifyIgnored(result) == TRUE

\* The Ok(_) arm of match vote.verify(300).
VerifyPassed(result) == result = "Ok"

\* The wall clock moves while the program runs.
ClockMoves ==
    /\ pc \notin {"start", "done"}
    /\ jumps < MaxJumps
    /\ \E d \in ClockSteps : clock' = clock + d
    /\ jumps' = jumps + 1
    /\ UNCHANGED <<pc, run_now, idx, pvote, ptype, verdicts, weight_engine,
                   threshold_engine, decision, history>>
    /\ UNCHANGED notPipe

\* main: "Run simulation?" answered yes: run_simulation() up to its loop.
SimStart ==
    /\ pc = "start"
    /\ run_now' = clock
    /\ weight_engine' = WeightEngineNew
    /\ history' = <<>>
    /\ ptype' = "Critical"
    /\ threshold_engine' =
            [ForProposalType("Critical") EXCEPT !.total_votes = Len(SimVoters)]
    /\ idx' = 0
    /\ pc' = "sim_cast"
    /\ UNCHANGED <<pvote, verdicts, decision, jumps, clock>>
    /\ UNCHANGED notPipe

\* run_simulation: the loop head and the construction of the i-th vote.
SimCast ==
    /\ pc = "sim_cast"
    /\ IF idx < Len(SimVoters)
       THEN \E keypair \in SigningKeys :
              LET voter == SimVoters[idx + 1]
                  decay == SimDecayModels[(idx % Len(SimDecayModels)) + 1]
                  timestamp == run_now - Seconds(idx * 30)
              IN  /\ pvote' = SignedVote(voter, <<"proposal_sim">>, timestamp,
                                Scale, decay,
                                SimulationSign(voter, <<"proposal_sim">>,
                                               timestamp, keypair),
                                VerifyingKey(keypair))
                  /\ pc' = "sim_verify"
       ELSE /\ pc' = "done"
            /\ UNCHANGED pvote
    /\ UNCHANGED <<run_now, idx, ptype, verdicts, weight_engine,
                   threshold_engine, decision, history, jumps, clock>>
    /\ UNCHANGED notPipe

\* run_simulation: match vote.verify(300)
SimVerify ==
    /\ pc = "sim_verify"
    /\ LET result == Verify(pvote, clock, 300)
       IN  /\ verdicts' = Append(verdicts,
                            [vote_id |-> pvote.voter_id, result |-> result])
           /\ IF VerifyPassed(result)
              THEN pc' = "sim_weight" /\ UNCHANGED idx
              ELSE pc' = "sim_cast" /\ idx' = idx + 1
    /\ UNCHANGED <<run_now, pvote, ptype, weight_engine, threshold_engine,
                   decision, history, jumps, clock>>
    /\ UNCHANGED notPipe

\* run_simulation: weight_engine.calculate_weight(&vote, now, Some(&trust_engine))
SimWeight ==
    /\ pc = "sim_weight"
    /\ LET r == CalculateWeight(weight_engine, pvote, run_now, TRUE)
       IN  /\ weight_engine' = r.engine
           /\ decision' = [NoDecision EXCEPT !.weight = r.weight]
    /\ pc' = "sim_threshold"
    /\ UNCHANGED <<run_now, idx, pvote, ptype, verdicts, threshold_engine,
                   history, jumps, clock>>
    /\ UNCHANGED notPipe

\* run_simulation: threshold_with_profile and is_threshold_met
SimThreshold ==
    /\ pc = "sim_threshold"
    /\ LET current_threshold ==
               ThresholdWithProfile(threshold_engine, run_now, pvote.timestamp)
           passed == IsThresholdMet(threshold_engine, decision.weight,
                                    current_threshold)
       IN  decision' = [decision EXCEPT !.current_threshold = current_threshold,
                                        !.passed = passed]
    /\ pc' = "sim_record"
    /\ UNCHANGED <<run_now, idx, pvote, ptype, verdicts, weight_engine,
                   threshold_engine, history, jumps, clock>>
    /\ UNCHANGED notPipe

\* run_simulation: history.record_vote(record), and on to the next voter
SimRecord ==
    /\ pc = "sim_record"
    /\ history' = RecordVote(history,
                    [vote_id |-> pvote.voter_id, weight |-> decision.weight,
                     threshold |-> decision.current_threshold,
                     passed |-> decision.passed, timestamp |-> run_now])
    /\ idx' = idx + 1
    /\ pc' = "sim_cast"
    /\ UNCHANGED <<run_now, pvote, ptype, verdicts, weight_engine,
                   threshold_engine, decision, jumps, clock>>
    /\ UNCHANGED notPipe

\* main: "Run simulation?" answered otherwise; steps 1 to 3: the input is
\* read and the vote is created by SignedVote::new with timestamp now.
MainCast ==
    /\ pc = "start"
    /\ \E voter_id \in InputVoterIds, proposal_id \in ProposalIds,
          original_weight \in InputWeights, decay_model \in DecayTypes,
          proposal_type \in ProposalTypes, signing_key \in SigningKeys :
        /\ run_now' = clock
        /\ pvote' = SignedVoteNew(voter_id, proposal_id, original_weight, clock,
                                  decay_model, signing_key)
        /\ ptype' = proposal_type
    /\ pc' = "main_verify"
    /\ UNCHANGED <<idx, verdicts, weight_engine, threshold_engine, decision,
                   history, jumps, clock>>
    /\ UNCHANGED notPipe

\* main, step 4: match vote.verify(300)
MainVerify ==
    /\ pc = "main_verify"
    /\ LET result == Verify(pvote, clock, 300)
       IN  /\ verdicts' = Append(verdicts,
                            [vote_id |-> pvote.voter_id, result |-> result])
           /\ pc' = IF VerifyPassed(result) THEN "main_weight" ELSE "done"
    /\ UNCHANGED <<run_now, idx, pvote, ptype, weight_engine, threshold_engine,
                   decision, history, jumps, clock>>
    /\ UNCHANGED notPipe

\* main, step 5: a new WeightEngine and calculate_weight
MainWeight ==
    /\ pc = "main_weight"
    /\ LET r == CalculateWeight(WeightEngineNew, pvote, run_now, TRUE)
       IN  /\ weight_engine' = r.engine
           /\ decision' = [NoDecision EXCEPT !.weight = r.weight]
    /\ pc' = "main_threshold"
    /\ UNCHANGED <<run_now, idx, pvote, ptype, verdicts, threshold_engine,
                   history, jumps, clock>>
    /\ UNCHANGED notPipe

\* main, step 6: the escalator of the proposal type, total_votes = 3
MainThreshold ==
    /\ pc = "main_threshold"
    /\ LET engine == [ForProposalType(ptype) EXCEPT !.total_votes = 3]
           current_threshold ==
               ThresholdWithProfile(engine, run_now, pvote.timestamp)
           passed == IsThresholdMet(engine, decision.weight, current_threshold)
       IN  /\ threshold_engine' = engine
           /\ decision' = [decision EXCEPT
                                !.current_threshold = current_threshold,
                                !.passed = passed]
    /\ pc' = "main_record"
    /\ UNCHANGED <<run_now, idx, pvote, ptype, verdicts, weight_engine,
                   history, jumps, clock>>
    /\ UNCHANGED notPipe

\* main, step 7: a new HistoryAnalyzer and record_vote
MainRecord ==
    /\ pc = "main_record"
    /\ history' = RecordVote(<<>>,
                    [vote_id |-> pvote.voter_id, weight |-> decision.weight,
                     threshold |-> decision.current_threshold,
                     passed |-> decision.passed, timestamp |-> run_now])
    /\ pc' = "done"
    /\ UNCHANGED <<run_now, idx, pvote, ptype, verdicts, weight_engine,
                   threshold_engine, decision, jumps, clock>>
    /\ UNCHANGED notPipe

----------------------------------------------------------------------------
(* Specifications.                                                          *)

\* main and run_simulation build no VotingWindow and call none of its
\* operations: window is the voting window of the proposal the vote is cast
\* on, still open when the run starts or closed by then.
ProposalWindows ==
    {VotingWindowNew(0, Short, 10), VotingWindowNew(-Seconds(400), Short, 10)}

Init ==
    /\ clock = 0
    /\ AuthIdle
    /\ DecayIdle
    /\ ThrIdle
    /\ PipeInit
    /\ EngineIdle
    /\ window \in ProposalWindows
    /\ wcall = [call |-> NoCallW, before |-> window]
    /\ HistoryIdle

Next ==
    \/ ClockMoves
    \/ SimStart
    \/ SimCast
    \/ SimVerify
    \/ SimWeight
    \/ SimThreshold
    \/ SimRecord
    \/ MainCast
    \/ MainVerify
    \/ MainWeight
    \/ MainThreshold
    \/ MainRecord

\* One run of the program: main, or run_simulation when asked for.
Spec == Init /\ [][Next]_vars

InitAuth ==
    /\ clock = 0
    /\ AuthInit
    /\ DecayIdle
    /\ ThrIdle
    /\ PipeIdle
    /\ EngineIdle
    /\ WindowIdle
    /\ HistoryIdle

NextAuth ==
    \/ CastNew
    \/ CastSimulation
    \/ CastSignVote
    \/ Tamper
    \/ CallVerify
    \/ Tick

\* Votes cast by every signing operation, changed, and verified.
SpecAuth == InitAuth /\ [][NextAuth]_vars

InitDecay ==
    /\ clock = 0
    /\ AuthIdle
    /\ DecayInit
    /\ ThrIdle
    /\ PipeIdle
    /\ EngineIdle
    /\ WindowIdle
    /\ HistoryIdle

NextDecay == CallComputeWeight

\* compute_weight called on model objects of every kind and parameter.
SpecDecay == InitDecay /\ [][NextDecay]_vars

InitThreshold ==
    /\ clock = 0
    /\ AuthIdle
    /\ DecayIdle
    /\ ThrInit({FALSE, TRUE}, 0..MaxVotes, MinVoteCounts, {0})
    /\ PipeIdle
    /\ EngineIdle
    /\ WindowIdle
    /\ HistoryIdle

NextThreshold ==
    \/ CallCurrentThreshold
    \/ CallThresholdWithProfile
    \/ CallIsThresholdMet

\* Single calls on escalators of every configuration.
SpecThreshold == InitThreshold /\ [][NextThreshold]_vars

InitEscalation ==
    /\ clock = 0
    /\ AuthIdle
    /\ DecayIdle
    /\ ThrInit({FALSE}, {0}, {3}, {0, Seconds(10)})
    /\ PipeIdle
    /\ EngineIdle
    /\ WindowIdle
    /\ HistoryIdle

NextEscalation ==
    \/ Advance
    \/ VoteArrives
    \/ Evaluate

\* A proposal whose threshold is evaluated again and again while time passes
\* and votes arrive.
SpecEscalation == InitEscalation /\ [][NextEscalation]_vars

InitEngine ==
    /\ clock = 0
    /\ AuthIdle
    /\ DecayIdle
    /\ ThrIdle
    /\ PipeIdle
    /\ EngineInit
    /\ WindowIdle
    /\ HistoryIdle

NextEngine ==
    \/ CallCalculateWeight
    \/ CallBatchCalculate
    \/ CallClearCache

\* One weight engine on which calculate_weight, batch_calculate and
\* clear_cache are called in any order.
SpecEngine == InitEngine /\ [][NextEngine]_vars

InitWindow ==
    /\ clock = 0
    /\ AuthIdle
    /\ DecayIdle
    /\ ThrIdle
    /\ PipeIdle
    /\ EngineIdle
    /\ WindowInit
    /\ HistoryIdle

NextWindow ==
    \/ CallIsOpen
    \/ CallTimeLeft
    \/ CallShouldExtend
    \/ CallExtend

\* One voting window on which is_open, time_left, should_extend and extend are
\* called in any order.
SpecWindow == InitWindow /\ [][NextWindow]_vars

InitHistory ==
    /\ clock = 0
    /\ AuthIdle
    /\ DecayIdle
    /\ ThrIdle
    /\ PipeIdle
    /\ EngineIdle
    /\ WindowIdle
    /\ HistoryInit

NextHistory ==
    \/ CallRecordVote
    \/ CallAverageMargin
    \/ CallSuggestedBaseThreshold

\* One history analyzer on which record_vote, average_margin and
\* suggested_base_threshold are called in any order.
SpecHistory == InitHistory /\ [][NextHistory]_vars

----------------------------------------------------------------------------
(* The decision pipeline: C1.                                               *)

\* The votes whose verify call returned an error.
Rejected == {verdicts[k].vote_id : k \in {n \in 1..Len(verdicts) :
                                            verdicts[n].result # "Ok"}}

\* C1: a vote whose verify call returned an error is never passed to
\* calculate_weight, threshold_with_profile, is_threshold_met or record_vote:
\* the weight cache, the weight history and the outcome log hold no entry for
\* it.
C1_RejectedVoteNotProcessed ==
    /\ \A v \in Rejected :
        /\ v \notin DOMAIN weight_engine.cache
        /\ \A k \in 1..Len(weight_engine.history) :
                weight_engine.history[k].vote_id # v
        /\ \A k \in 1..Len(history) : history[k].vote_id # v
    /\ pc \in {"sim_weight", "sim_threshold", "sim_record",
               "main_weight", "main_threshold", "main_record"}
            => /\ verdicts # <<>>
               /\ verdicts[Len(verdicts)] =
                        [vote_id |-> pvote.voter_id, result |-> "Ok"]

\* A run of the simulation has ended in which one vote was rejected for its
\* timestamp and another was accepted and recorded.
C1_Witness ==
    /\ pc = "done"
    /\ Rejected # {}
    /\ history # <<>>
    /\ \E k \in 1..Len(verdicts) :
            verdicts[k].result \in {"TimestampExpired", "TimestampInFuture"}

----------------------------------------------------------------------------
(* Vote authentication: C2, C3, C4.                                         *)

\* age_secs as verify computes it for the recorded call.
AgeSecs == NumSeconds(vres.now - vote.timestamp)

InWindow == AgeSecs >= -5 /\ AgeSecs <= vres.max_age_secs

SignatureGood == Verifies(vote.public_key, VerifyMessage(vote), vote.signature)

\* now - vote.timestamp for the recorded call, as the duration it is (in ticks).
Age == vres.now - vote.timestamp

InTolerance == Age >= Seconds(-5) /\ Age <= Seconds(vres.max_age_secs)

\* C2: with age = now - vote.timestamp, verify reports TimestampInFuture if
\* age < -5 s, else TimestampExpired if age > max_age_secs, else
\* InvalidSignature if the signature does not verify, else Ok; so a timestamp
\* error wins over a bad signature, and the ages -5 s and max_age_secs are
\* accepted.
C2_VerifyOrder ==
    vres # NoVerify =>
        /\ Age < Seconds(-5) => vres.result = "TimestampInFuture"
        /\ (Age >= Seconds(-5) /\ Age > Seconds(vres.max_age_secs))
                => vres.result = "TimestampExpired"
        /\ (InTolerance /\ ~SignatureGood) => vres.result = "InvalidSignature"
        /\ (InTolerance /\ SignatureGood) => vres.result = "Ok"

\* C3: a vote built by SignedVote::new with a timestamp inside the tolerance
\* window verifies Ok when unmodified, and verifies InvalidSignature when its
\* signature, voter_id, proposal_id or timestamp was changed (the timestamp
\* staying inside the window).
C3_RoundTrip ==
    (vres # NoVerify /\ origin = "new" /\ InWindow) =>
        /\ tamper = "none" => vres.result = "Ok"
        /\ tamper \in {"signature", "voter_id", "proposal_id", "timestamp"}
                => vres.result = "InvalidSignature"

\* A vote from SignedVote::new whose timestamp was moved by less than a second
\* inside the window has been verified and rejected for its signature.
C3_Witness ==
    /\ origin = "new" /\ tamper = "timestamp" /\ InWindow
    /\ vres.result = "InvalidSignature"
    /\ vote.signature.over # VerifyMessage(vote)
    /\ \E d \in {-1, 1} :
        vote.signature.over = NewMessage(vote.voter_id, vote.proposal_id,
                                         vote.timestamp + d)

\* C4: every signing operation (SignedVote::new, sign_vote, the signing in
\* run_simulation) signs the canonical message that verify recomputes, so the
\* unmodified vote carrying its signature is accepted by verify inside the
\* tolerance window.
C4_EverySignerAccepted ==
    (vote # NoVote /\ tamper = "none") =>
        /\ vote.signature.over = VerifyMessage(vote)
        /\ (vres # NoVerify /\ InWindow) => vres.result = "Ok"

----------------------------------------------------------------------------
(* Decay models: C5, C6.                                                    *)

\* C5 as stated: for every decay model (any rate, any step list), every
\* original weight and every elapsed time >= 0 the weight computed lies in
\* [0.1 * original_weight, original_weight].
C5_AnyModelWithinBounds ==
    dcur # NoCall =>
        /\ Floor10(dw0) <= dcur.weight
        /\ dcur.weight <= dw0

\* C5 as amended: for an original weight >= 0, a rate >= 0 and step multipliers
\* <= 1.0, the weight computed for every elapsed time >= 0 lies in
\* [0.1 * original_weight, original_weight].
C5_DecayWithinBounds ==
    (dcur # NoCall /\ dw0 >= 0 /\ IsDecaying(dmodel)) =>
        /\ Floor10(dw0) <= dcur.weight
        /\ dcur.weight <= dw0

\* Each kind of model has reached its 10% floor and has also returned a
\* weight strictly inside the interval.
C5_Witness ==
    /\ dcur # NoCall /\ dprev # NoCall
    /\ dw0 > 0 /\ IsDecaying(dmodel)
    /\ dmodel.kind = "Exponential"
    /\ dcur.weight = Floor10(dw0)
    /\ dprev.weight > Floor10(dw0) /\ dprev.weight < dw0

\* C6 as stated: for every decay model and original weight, compute_weight is
\* non-increasing in elapsed time.
C6_AnyModelNonIncreasing ==
    (dcur # NoCall /\ dprev # NoCall /\ dprev.elapsed_time <= dcur.elapsed_time)
        => dcur.weight <= dprev.weight

\* C6 as amended: for an original weight >= 0, a rate >= 0 and a step list
\* whose multipliers are <= 1.0 and never grow along the list, compute_weight
\* is non-increasing in elapsed time: t1 <= t2 gives weight(t2) <= weight(t1).
C6_DecayNonIncreasing ==
    (/\ dcur # NoCall /\ dprev # NoCall
     /\ dw0 >= 0 /\ IsDecaying(dmodel) /\ StepsDescend(dmodel)
     /\ dprev.elapsed_time <= dcur.elapsed_time)
        => dcur.weight <= dprev.weight

\* A stepped model evaluated before its first threshold and then after its
\* second one: the later entry has overridden the earlier one.
C6_Witness ==
    /\ dmodel.kind = "Stepped" /\ Len(dmodel.decay_steps) >= 2
    /\ IsDecaying(dmodel) /\ StepsDescend(dmodel) /\ dw0 > 0
    /\ dprev # NoCall /\ dprev.elapsed_time < dmodel.decay_steps[1][1]
    /\ dcur.elapsed_time >= dmodel.decay_steps[2][1]
    /\ dmodel.decay_steps[2][1] > dmodel.decay_steps[1][1]
    /\ dcur.weight = Mul(dw0, dmodel.decay_steps[2][2])
    /\ dcur.weight < dprev.weight

----------------------------------------------------------------------------
(* Threshold escalator: C7, C8, C9, C10.                                    *)

\* C7 as stated: with emergency_override = false, for any base_threshold,
\* ceiling and pattern parameters and every elapsed_secs >= 0,
\* base_threshold <= current_threshold(elapsed_secs) <= ceiling.
C7_AnyConfigWithinBounds ==
    (tcall.op = "current_threshold" /\ ~esc.emergency_override) =>
        /\ esc.base_threshold <= tcall.threshold
        /\ tcall.threshold <= esc.ceiling

\* C7 as amended: with emergency_override = false, base_threshold <= ceiling
\* and a rate, factor or k that is not negative, for every elapsed_secs >= 0,
\* base_threshold <= current_threshold(elapsed_secs), and for the Linear and
\* Exponential patterns, which are capped, current_threshold(elapsed_secs) <=
\* ceiling.  (The Sigmoid value base + sigmoid * (ceiling - base) is not
\* capped; in f64 the sum can round to the value next above ceiling, which
\* fixed-point sums, being exact, do not show.)
C7_EscalatingWithinBounds ==
    (tcall.op = "current_threshold" /\ ~esc.emergency_override
        /\ IsEscalating(esc)) =>
        /\ esc.base_threshold <= tcall.threshold
        /\ esc.pattern.kind \in {"Linear", "Exponential"}
                => tcall.threshold <= esc.ceiling

\* A linear escalator was evaluated so late that only the cap keeps it at the
\* ceiling.
C7_Witness ==
    /\ tcall.op = "current_threshold" /\ ~esc.emergency_override
    /\ IsEscalating(esc) /\ esc.pattern.kind = "Linear"
    /\ esc.base_threshold + esc.pattern.p1 * tcall.a > esc.ceiling
    /\ tcall.threshold = esc.ceiling

\* C8: with emergency_override = true, current_threshold and
\* threshold_with_profile return exactly ceiling, for every elapsed time,
\* pattern, profile and total_votes, also when now is before start.
C8_OverridePinsCeiling ==
    (tcall.op \in {"current_threshold", "threshold_with_profile"}
        /\ esc.emergency_override) => tcall.threshold = esc.ceiling

\* threshold_with_profile was called with now before start on an overridden
\* escalator whose pattern alone would give another value.
C8_Witness ==
    /\ tcall.op = "threshold_with_profile" /\ esc.emergency_override
    /\ tcall.a < tcall.b
    /\ tcall.threshold = esc.ceiling
    /\ PatternThreshold(esc, 0) # esc.ceiling

\* C9: is_threshold_met(weight, required) is true exactly when
\* weight >= required and total_votes >= min_vote_count.
C9_ThresholdMet ==
    tcall.op = "is_threshold_met" =>
        (tcall.met <=> (tcall.a >= tcall.b
                        /\ esc.total_votes >= esc.min_vote_count))

\* Sufficient weight failed on participation.
C9_Witness ==
    /\ tcall.op = "is_threshold_met"
    /\ tcall.a >= tcall.b
    /\ esc.total_votes < esc.min_vote_count
    /\ ~tcall.met

\* C10 as stated: with the override off, over evaluations of
\* threshold_with_profile at non-decreasing now, total_votes only growing, the
\* threshold returned never decreases from one evaluation to the next.  It is
\* stated here for the configurations that can only escalate, where it fails
\* all the same.
C10_NeverDecreases ==
    (tprev # NoEval /\ tcur # NoEval /\ IsEscalating(esc)) =>
        tcur.threshold >= tprev.threshold

\* C10 as amended: the same, for an escalator with base_threshold <= ceiling
\* and a rate, factor or k that is not negative, whose profile is Conservative
\* or Aggressive, or is Adaptive with total_votes on the same side of 3 at both
\* evaluations.
C10_NeverDecreasesSameScaling ==
    (/\ tprev # NoEval /\ tcur # NoEval /\ IsEscalating(esc)
     /\ \/ esc.profile # "Adaptive"
        \/ (tprev.total_votes < 3) <=> (tcur.total_votes < 3))
        => tcur.threshold >= tprev.threshold

\* Two evaluations of one proposal, the later one after more time and more
\* votes, the threshold having risen.
C10_Witness ==
    /\ tprev # NoEval /\ IsEscalating(esc)
    /\ tcur.now > tprev.now /\ tcur.total_votes > tprev.total_votes
    /\ tcur.threshold > tprev.threshold

----------------------------------------------------------------------------
(* The profile wrapper of the threshold escalator: C11.                     *)

\* The whole seconds from start to now, 0 when now is not after start.
ElapsedWhole(now, start) ==
    IF now <= start THEN 0 ELSE (now - start) \div TicksPerSec

\* The elapsed time handed to current_threshold, by profile.
ScaledElapsed(self, elapsed) ==
    CASE self.profile = "Conservative" -> elapsed
      [] self.profile = "Aggressive" -> 2 * elapsed
      [] self.profile = "Adaptive" ->
            IF self.total_votes < 3 THEN 3 * elapsed ELSE elapsed

\* C11: threshold_with_profile(now, start) equals current_threshold(s), where
\* elapsed = max(now - start, 0) in whole seconds and s = elapsed for
\* Conservative, 2 * elapsed for Aggressive, and for Adaptive 3 * elapsed when
\* total_votes < 3 and elapsed otherwise; now earlier than start gives the
\* result of elapsed 0.
C11_ProfileScaling ==
    tcall.op = "threshold_with_profile" =>
        /\ tcall.threshold =
                CurrentThreshold(esc,
                    ScaledElapsed(esc, ElapsedWhole(tcall.a, tcall.b)))
        /\ tcall.a < tcall.b => tcall.threshold = CurrentThreshold(esc, 0)

\* An Adaptive escalator with fewer than 3 votes was evaluated a fractional
\* number of seconds after start, and the tripling changed the result.
C11_Witness ==
    /\ tcall.op = "threshold_with_profile"
    /\ esc.profile = "Adaptive" /\ esc.total_votes < 3
    /\ ~esc.emergency_override
    /\ tcall.a > tcall.b /\ (tcall.a - tcall.b) % TicksPerSec # 0
    /\ tcall.threshold # CurrentThreshold(esc, ElapsedWhole(tcall.a, tcall.b))
    /\ tcall.threshold =
            CurrentThreshold(esc, 3 * ElapsedWhole(tcall.a, tcall.b))

----------------------------------------------------------------------------
(* The weight engine: C12 to C17.                                           *)

OwnWeight(v, at, trust) == CalculateWeight(WeightEngineNew, v, at, trust).weight

\* C13: batch_calculate on a fresh engine, for every sequence of n votes,
\* returns n weights, the i-th being the weight of the i-th vote, and leaves a
\* history log of exactly n entries, the i-th being for the i-th vote.
C13_BatchInOrder ==
    (ecall.op = "batch_calculate" /\ ecall.before = WeightEngineNew) =>
        /\ Len(ecall.weights) = Len(ecall.votes)
        /\ \A i \in 1..Len(ecall.votes) :
                ecall.weights[i] = OwnWeight(ecall.votes[i], ecall.now,
                                             ecall.trust)
        /\ Len(eng.history) = Len(ecall.votes)
        /\ \A i \in 1..Len(ecall.votes) :
                /\ i <= Len(eng.history)
                /\ eng.history[i].vote_id = ecall.votes[i].voter_id

\* The last call was a calculate_weight that found no cached weight.
Miss ==
    /\ ecall.op = "calculate_weight"
    /\ ecall.votes[1].voter_id \notin DOMAIN ecall.before.cache

\* C14: on a cache miss the age is clamped to be non-negative: for a vote whose
\* timestamp is later than now, the weight is the weight at age 0, and without
\* a trust bonus it does not exceed original_weight.
C14_AgeClamped ==
    (Miss /\ ecall.votes[1].timestamp > ecall.now) =>
        /\ ecall.weights[1] =
                OwnWeight([ecall.votes[1] EXCEPT !.timestamp = ecall.now],
                          ecall.now, ecall.trust)
        /\ ~ecall.trust => ecall.weights[1] <= ecall.votes[1].original_weight

\* The decay model of a decay kind, with the policy constants.
PolicyDecay(decay_model) ==
    CASE decay_model = "Linear" -> LinearDecay(Lit(1, 1000))
      [] decay_model = "Exponential" -> ExponentialDecay(Lit(5, 1000))
      [] decay_model = "Stepped" ->
            SteppedDecay(<<<<60, Lit(8, 10)>>, <<180, Lit(5, 10)>>,
                           <<300, Lit(2, 10)>>>>)

\* The bonus of an identity: 1.2 and 1.1 for the two table entries, 1.0 for
\* every other identity.
TableBonus(voter_id) ==
    CASE voter_id = <<"validator_001">> -> Lit(12, 10)
      [] voter_id = <<"validator_002">> -> Lit(11, 10)
      [] OTHER -> Scale

\* D(original_weight, age) * b, age being the whole seconds from the vote's
\* timestamp to now.
PolicyWeight(v, at, trust) ==
    LET age == NumSeconds(at - v.timestamp)
        d == ComputeWeight(PolicyDecay(v.decay_model), v.original_weight, age)
    IN  IF trust THEN Mul(d, TableBonus(v.voter_id)) ELSE d

\* C15: on a cache miss calculate_weight returns D(original_weight, age) * b,
\* D the decay model of vote.decay_model with the policy constants, b the
\* bonus of voter_id when a trust engine is supplied (1.0 for an identity
\* absent from the table, matched case-sensitively) and 1 when none is; the
\* same value is stored in the cache under voter_id and in the appended
\* history entry.
C15_MissComputesPolicyWeight ==
    Miss =>
        LET v == ecall.votes[1]
            w == PolicyWeight(v, ecall.now, ecall.trust)
        IN  /\ ecall.weights[1] = w
            /\ eng.cache = Insert(ecall.before.cache, v.voter_id, w)
            /\ eng.history = Append(ecall.before.history,
                                [vote_id |-> v.voter_id, weight |-> w,
                                 timestamp |-> ecall.now])
            /\ (ecall.trust /\ v.voter_id \notin {<<"validator_001">>,
                                                   <<"validator_002">>})
                    => w = PolicyWeight(v, ecall.now, FALSE)

\* A trusted validator's vote missed the cache with a trust engine supplied,
\* and the bonus raised the weight stored.
C15_Witness ==
    /\ Miss /\ ecall.trust
    /\ ecall.votes[1].voter_id = <<"validator_001">>
    /\ ecall.weights[1] > PolicyWeight(ecall.votes[1], ecall.now, FALSE)
    /\ eng.cache[<<"validator_001">>] = ecall.weights[1]
    /\ eng.history[Len(eng.history)].weight = ecall.weights[1]

\* C16: after clear_cache the memo cache and the history log are both empty,
\* and the next calculate_weight, for any voter, one cached before the clear
\* included, recomputes the weight from the vote and now and appends a new
\* history entry.
C16_ClearResetsBoth ==
    /\ ecall.op = "clear_cache" => eng = WeightEngineNew
    /\ (ecall.op = "calculate_weight" /\ ecall.after_clear) =>
            LET v == ecall.votes[1]
                w == OwnWeight(v, ecall.now, ecall.trust)
            IN  /\ ecall.weights[1] = w
                /\ eng.cache = Insert(EmptyMap, v.voter_id, w)
                /\ eng.history = <<[vote_id |-> v.voter_id, weight |-> w,
                                    timestamp |-> ecall.now]>>

\* calculate_weight was called right after a clear_cache for a voter whose
\* weight the clear had wiped, and returned another weight than the wiped one.
C16_Witness ==
    /\ ecall.op = "calculate_weight" /\ ecall.after_clear
    /\ ecall.votes[1].voter_id \in DOMAIN ecall.wiped
    /\ ecall.weights[1] # ecall.wiped[ecall.votes[1].voter_id]
    /\ Len(eng.history) = 1

\* s is a prefix of t.
IsPrefix(s, t) == Len(s) <= Len(t) /\ SubSeq(t, 1, Len(s)) = s

\* C17: the history log of the weight engine is append-only: across any
\* sequence of weight engine operations the log at an earlier point is a
\* prefix of the log at every later point.
C17_AppendOnly == [][IsPrefix(eng.history, eng'.history)]_vars

\* C17 as amended: calculate_weight and batch_calculate only append to the log
\* (the log before the call is a prefix of the log after it); clear_cache is
\* the one operation that removes entries, and it removes them all.
C17_AppendOnlyUntilCleared ==
    [][/\ ecall'.op # "clear_cache" => IsPrefix(eng.history, eng'.history)
       /\ ecall'.op = "clear_cache" => eng'.history = <<>>]_vars

\* A miss appended a third entry behind two earlier ones.
C17_Witness ==
    /\ Miss
    /\ Len(ecall.before.history) = 2
    /\ Len(eng.history) = 3
    /\ IsPrefix(ecall.before.history, eng.history)

----------------------------------------------------------------------------
(* The voting window: C18 to C20.                                           *)

\* C18: a vote evaluated at a time now at which the proposal's window is not
\* open (now > start_time + duration_secs + grace_secs) is not accepted by the
\* pipeline: it is not weighted and no outcome record is written for it.
C18_WindowGatesPipeline ==
    /\ \A k \in 1..Len(weight_engine.history) :
            IsOpen(window, weight_engine.history[k].timestamp)
    /\ \A k \in 1..Len(history) : IsOpen(window, history[k].timestamp)

\* (start_time + duration_secs) - now in whole seconds, for the window the
\* last call was made on.
WholeSecondsLeft ==
    LET d == wcall.before.start_time
                + wcall.before.duration_secs * TicksPerSec - wcall.call.now
    IN  IF d >= 0 THEN d \div TicksPerSec ELSE -((-d) \div TicksPerSec)

C20_DurationOnlyGrows ==
    [][/\ window'.duration_secs >= window.duration_secs
       /\ wcall'.call.op = "extend" =>
            window' = [window EXCEPT
                        !.duration_secs = @ + wcall'.call.extra_secs]
       /\ wcall'.call.op # "extend" => window' = window]_vars

----------------------------------------------------------------------------
(* The history analyzer: C21.                                               *)

RECURSIVE MarginsOfFirst(_, _)
\* The sum of weight - threshold over the first n records.
MarginsOfFirst(records, n) ==
    IF n = 0
    THEN 0
    ELSE MarginsOfFirst(records, n - 1)
            + (records[n].weight - records[n].threshold)

\* The mean of weight - threshold over a history that is not empty.
MeanMargin(records) == MarginsOfFirst(records, Len(records)) \div Len(records)

\* C21: whatever records record_vote has stored, average_margin returns the
\* mean of weight - threshold over them and suggested_base_threshold returns
\* 0.55 when that mean is below zero and 0.50 otherwise; on an empty history
\* average_margin returns 0.0 and suggested_base_threshold 0.50.
C21_MarginAndSuggestion ==
    /\ hcall.op = "average_margin" =>
            hcall.result = IF analyzer.records = <<>>
                           THEN 0
                           ELSE MeanMargin(analyzer.records)
    /\ hcall.op = "suggested_base_threshold" =>
            hcall.result = IF /\ analyzer.records # <<>>
                              /\ MeanMargin(analyzer.records) < 0
                           THEN Lit(55, 100)
                           ELSE Lit(50, 100)

\* Three recorded votes, one of them above its threshold, with a mean margin
\* below zero: the suggestion is 0.55.
C21_Witness ==
    /\ Len(analyzer.records) = 3
    /\ \E k \in 1..3 : analyzer.records[k].weight > analyzer.records[k].threshold
    /\ hcall.op = "suggested_base_threshold"
    /\ hcall.result = Lit(55, 100)

----------------------------------------------------------------------------
(* The weight engine's two stores: C22.                                     *)

\* The vote_ids of a history log.
LoggedIds(log) == {log[k].vote_id : k \in 1..Len(log)}

----------------------------------------------------------------------------
(* What the signature leaves open: C23.                                     *)

\* original_weight and decay_model values a vote may carry.
OtherWeights == {0, Scale, 2 * Scale}
OtherModels  == {"Linear", "Exponential", "Stepped"}

\* The votes that agree with v on voter_id, proposal_id, timestamp, signature
\* and public_key and differ from it in original_weight or decay_model.
SameSigned(v) ==
    {[v EXCEPT !.original_weight = w, !.decay_model = m] :
        w \in OtherWeights, m \in OtherModels} \ {v}

\* The weight a new engine computes for v at the instant at, without trust.
FreshWeight(v, at) == CalculateWeight(WeightEngineNew, v, at, FALSE).weight

\* C23: verify does not look at original_weight or decay_model: a vote that
\* differs from the verified one in these two fields only gets the same
\* result from verify at the same instant; and for an accepted vote there is
\* such a vote to which a new weight engine gives another weight.
C23_WeightAndModelUnsigned ==
    vres.result # "none" =>
        /\ \A u \in SameSigned(vote) :
                Verify(u, vres.now, vres.max_age_secs) = vres.result
        /\ vres.result = "Ok" =>
                \E u \in SameSigned(vote) :
                    FreshWeight(u, vres.now) # FreshWeight(vote, vres.now)

\* A vote built by SignedVote::new as Linear, set to another decay model
\* afterwards, is accepted by verify, and a new engine gives it another weight
\* than it gives the vote as it was signed.
C23_Witness ==
    /\ origin = "new"
    /\ tamper = "decay_model"
    /\ vres.result = "Ok"
    /\ FreshWeight(vote, vres.now)
            # FreshWeight([vote EXCEPT !.decay_model = "Linear"], vres.now)

====
